---- MODULE Spec2Model ----
(***************************************************************************)
(* State-machine model of the mlmbackend REST service: the withdrawal      *)
(* ledger, the admin catalog (products, events, slider images), the user   *)
(* store with its password hook and token issuance, and the two routers.   *)
(* Every action is one HTTP request: the route's middleware chain followed *)
(* by the whole handler, with the response it sends recorded in `last`.    *)
(***************************************************************************)
EXTENDS Integers, Sequences, FiniteSets, TLC

VARIABLES
    users,          \* User collection: uid -> user document
    plain,          \* ghost: uid -> plaintext the stored password was set from
    refreshIssued,  \* ghost: the refresh tokens the service has signed
    accessIssued,   \* uids for which a valid (signed, unexpired) access token exists
    clock,          \* wall clock in seconds (iat of the tokens signed)
    withdrawals,    \* withdrawalRequestAmount collection: _id -> document
    nextWid,        \* next fresh _id of the withdrawal collection
    products,       \* Admin (product) collection: _id -> document
    events,         \* Events collection: _id -> document
    sliders,        \* Slider collection: _id -> document
    nextPid,        \* next fresh _id of the product collection
    nextEid,        \* next fresh _id of the event collection
    nextSid,        \* next fresh _id of the slider collection
    schemaStrict,   \* whether the catalog schemas mark their text fields required
    last,           \* the last request: route, credential, body, handler run, response
    prevUpd         \* ghost: the admin status update the request before `last` completed

vars == <<users, plain, refreshIssued, accessIssued, clock, withdrawals, nextWid,
          products, events, sliders, nextPid, nextEid, nextSid, schemaStrict,
          last, prevUpd>>

userVars    == <<users, plain, refreshIssued, accessIssued, clock>>
ledgerVars  == <<withdrawals, nextWid>>
nextIds     == <<nextPid, nextEid, nextSid>>
catalogVars == <<products, events, sliders, schemaStrict, nextIds>>

---------------------------------------------------------------------------
(* Bounds *)

MaxUsers == 1           \* user ids 1..MaxUsers
MaxWithdrawals == 2     \* withdrawal requests ever created
MaxCatalog == 1         \* documents ever created in the catalog collections
MaxClock == 2           \* seconds the clock may advance

UserIds == 1..MaxUsers
WIds    == 1..MaxWithdrawals
CatIds  == 1..MaxCatalog

---------------------------------------------------------------------------
(* JavaScript values *)

\* A body field that the request does not carry.
Undefined == "<undefined>"

\* !v for a string-valued body field
Falsy(v) == v \in {Undefined, ""}

\* String.prototype.trim on the strings the requests carry
Trim(v) == IF v = " " THEN "" ELSE v

\* typeof field === 'string' && field.trim() === ""
BlankString(v) == v # Undefined /\ Trim(v) = ""

\* A request without an _id field carries id NoId; a request without a token NoToken.
NoId == 0
NoToken == 0

---------------------------------------------------------------------------
(* Responses *)

\* res.status(code).json(new ApiResponse(code, data, message))
ApiResponse(code, data) == [status |-> code, envelope |-> TRUE, data |-> data]

\* throw new ApiError(code, message), sent by the asyncHandler wrapper
ApiError(code) == [status |-> code, envelope |-> TRUE, data |-> "error"]

\* an exception that is no ApiError (TypeError, store error): the generic 500
ServerError == [status |-> 500, envelope |-> TRUE, data |-> "error"]

\* res.status(code).json(code, {}, message): the body sent is the bare number
BareJson(code) == [status |-> code, envelope |-> FALSE, data |-> "bare"]

NoUpd == [id |-> NoId, status |-> ""]

---------------------------------------------------------------------------
(* Routers: each route with whether verifyJWT is in its middleware chain *)

adminRouter ==
       ("admin GET /home" :> TRUE)
    @@ ("admin POST /addProduct" :> TRUE)
    @@ ("admin POST /addEvent" :> TRUE)
    @@ ("admin GET /getAllProducts" :> TRUE)
    @@ ("admin POST /addslider" :> FALSE)
    @@ ("admin GET /getSliderImg" :> FALSE)
    @@ ("admin POST /updateslider" :> FALSE)
    @@ ("admin DELETE /deleteslider" :> FALSE)
    @@ ("admin GET /getEventRecords" :> TRUE)
    @@ ("admin DELETE /deleteEvent" :> FALSE)
    @@ ("admin POST /updateEvent" :> TRUE)
    @@ ("admin GET /getUserRecords" :> TRUE)
    @@ ("admin GET /withdrawalrequests" :> TRUE)
    @@ ("admin POST /withdrawalrequest/status" :> TRUE)

userRouter ==
       ("POST /register" :> FALSE)
    @@ ("POST /login" :> FALSE)
    @@ ("POST /sendOtp" :> FALSE)
    @@ ("POST /usersReciveMoney" :> TRUE)
    @@ ("POST /receiveMoney" :> TRUE)
    @@ ("PATCH /avatar" :> TRUE)
    @@ ("POST /withdrawalrequest" :> TRUE)
    @@ ("GET /getwithdrawalrequest" :> TRUE)
    @@ ("POST /withdrawalrequest/status" :> TRUE)
    @@ ("DELETE /withdrawalrequest/delete" :> TRUE)
    @@ ("POST /logout" :> TRUE)
    @@ ("POST /refresh-token" :> FALSE)
    @@ ("POST /change-password" :> TRUE)
    @@ ("GET /current-user" :> TRUE)
    @@ ("PATCH /update-account" :> TRUE)

\* Credentials a request may present: no token, or a token naming user u, which
\* verifies only if the service issued it (otherwise it is forged).
Creds == {NoToken} \cup UserIds

\* the admin router is driven anonymously or by one logged-in user
AdminCreds == {NoToken} \cup {u \in UserIds : u <= 1}

\* auth.middleware.js: the token decodes under the access secret, is unexpired,
\* and names an existing user.
verifyJWT(cred) == cred \in accessIssued /\ cred \in DOMAIN users

\* The middleware chain of `route` lets the request through to the handler.
Passes(router, route, cred) == router[route] => verifyJWT(cred)

Request(route, cred, body, ran, res) ==
    [route |-> route, cred |-> cred, body |-> body, ran |-> ran, res |-> res]

\* verifyJWT throws ApiError(401): the handler does not run, nothing is touched.
Refuse(route, cred, body) ==
    /\ last' = Request(route, cred, body, FALSE, ApiError(401))
    /\ UNCHANGED <<userVars, ledgerVars, catalogVars>>

\* ghost bookkeeping: what `last` (about to become the previous request) completed
Summary(r) ==
    IF r.route = "admin POST /withdrawalrequest/status" /\ r.ran /\ r.res.status = 200
    THEN [id |-> r.body.id, status |-> r.body.status]
    ELSE NoUpd

---------------------------------------------------------------------------
(* Mongoose operations *)

\* findByIdAndUpdate called with { upsert: true }
findByIdAndUpdateUpsert(coll, id, update) ==
    IF id \in DOMAIN coll
    THEN [coll EXCEPT ![id] = [f \in DOMAIN @ |->
                                 IF f \in DOMAIN update THEN update[f] ELSE @[f]]]
    ELSE [i \in DOMAIN coll \cup {id} |-> IF i = id THEN update ELSE coll[i]]

\* findByIdAndUpdate replacing the document by `update` ({ overwrite: true })
findByIdAndUpdateOverwrite(coll, id, update) ==
    IF id \in DOMAIN coll THEN [coll EXCEPT ![id] = update] ELSE coll

\* Model.findByIdAndUpdate(id, update): sets the fields of `update` on the
\* document with that _id, without validators and without upsert.
findByIdAndUpdate(coll, id, update) ==
    IF id \in DOMAIN coll
    THEN [coll EXCEPT ![id] = [f \in DOMAIN @ |->
                                 IF f \in DOMAIN update THEN update[f] ELSE @[f]]]
    ELSE coll

\* Model.findByIdAndDelete(id)
findByIdAndDelete(coll, id) == [i \in DOMAIN coll \ {id} |-> coll[i]]

\* Model.create(doc) under a fresh _id
create(coll, id, doc) == [i \in DOMAIN coll \cup {id} |-> IF i = id THEN doc ELSE coll[i]]

---------------------------------------------------------------------------
(* withdrawalRequestSchema *)

StatusEnum == {"Pending", "Approved", "Rejected"}
\* the schema with default: 'Approved'
StatusDefaultApproved == "Approved"

StatusDefault == "Pending"

\* The document the schema builds from the fields handed to create(): the
\* defaults fill dateTime and status.
withdrawalRequestSchema(fields) ==
    [address     |-> fields.address,
     amount      |-> fields.amount,
     finalAmount |-> fields.finalAmount,
     username    |-> fields.username,
     mobile      |-> fields.mobile,
     dateTime    |-> clock,
     status      |-> StatusDefault]

\* required: true on a String rejects undefined and the empty string
withdrawalRequestValid(doc) ==
    /\ ~Falsy(doc.address)
    /\ doc.status \in StatusEnum

---------------------------------------------------------------------------
(* Withdrawal ledger: request inputs *)

Addresses    == {"0xAA", Undefined}
Amounts      == {100, 0 - 5}
FinalAmounts == {95}
StatusInputs == {"Pending", "Approved", "Rejected", "Cancelled by Admin", "", Undefined}
IdInputs     == {NoId} \cup WIds

\* the check as the comment and the error message of the handler word it
AdminStatusAllowedAsCommented(status) == status = "Rejected" \/ status = "Cancelled by Admin"

\* the update document with the status hard-wired
StatusUpdateApproved(status) == [status |-> "Approved"]

\* admin.controller.js: status !== 'Approved' && status !== 'Cancelled by Admin'
AdminStatusAllowed(status) == status = "Approved" \/ status = "Cancelled by Admin"

\* the update document { status }
StatusUpdate(status) == [status |-> status]

\* updateWithdrawalStatusByAdmin handler: the collection and the response it leaves
updateWithdrawalStatusByAdmin(id, status) ==
    IF id = NoId THEN [coll |-> withdrawals, res |-> ApiError(400)]
    ELSE IF Falsy(status) THEN [coll |-> withdrawals, res |-> ApiError(400)]
    ELSE IF ~AdminStatusAllowed(status) THEN [coll |-> withdrawals, res |-> ApiError(400)]
    ELSE LET updated == findByIdAndUpdate(withdrawals, id, StatusUpdate(status)) IN
         IF id \notin DOMAIN updated
         THEN [coll |-> updated, res |-> ApiError(404)]
         ELSE [coll |-> updated, res |-> ApiResponse(200, updated[id])]

UpdateWithdrawalStatusByAdmin(cred, id, status) ==
    LET route == "admin POST /withdrawalrequest/status"
        body  == [id |-> id, status |-> status]
        out   == updateWithdrawalStatusByAdmin(id, status)
    IN  /\ prevUpd' = Summary(last)
        /\ IF ~Passes(adminRouter, route, cred)
           THEN Refuse(route, cred, body)
           ELSE /\ withdrawals' = out.coll
                /\ last' = Request(route, cred, body, TRUE, out.res)
                /\ UNCHANGED <<userVars, nextWid, catalogVars>>

\* getAllUserWithdrawalsForAdmin handler
getAllUserWithdrawalsForAdmin ==
    IF DOMAIN withdrawals = {}
    THEN ApiResponse(404, withdrawals)
    ELSE ApiResponse(200, withdrawals)

GetAllUserWithdrawalsForAdmin(cred) ==
    LET route == "admin GET /withdrawalrequests"
        body  == [id |-> NoId]
    IN  /\ prevUpd' = Summary(last)
        /\ IF ~Passes(adminRouter, route, cred)
           THEN Refuse(route, cred, body)
           ELSE /\ last' = Request(route, cred, body, TRUE, getAllUserWithdrawalsForAdmin)
                /\ UNCHANGED <<userVars, ledgerVars, catalogVars>>

\* user.controller.js processWithdrawal (submit): validates, then creates the
\* request for the authenticated user; the schema supplies the status.
processWithdrawal(u, address, amount, finalAmount) ==
    LET doc == withdrawalRequestSchema([address |-> address, amount |-> amount,
                   finalAmount |-> finalAmount, username |-> u, mobile |-> u])
    IN  IF amount < 0 \/ finalAmount < 0 \/ ~withdrawalRequestValid(doc)
        THEN [coll |-> withdrawals, res |-> ApiError(400)]
        ELSE [coll |-> create(withdrawals, nextWid, doc), res |-> ApiResponse(200, doc)]

ProcessWithdrawal(cred, address, amount, finalAmount) ==
    LET route == "POST /withdrawalrequest"
        body  == [address |-> address, amount |-> amount, finalAmount |-> finalAmount]
        out   == processWithdrawal(cred, address, amount, finalAmount)
    IN  /\ nextWid <= MaxWithdrawals
        /\ prevUpd' = Summary(last)
        /\ IF ~Passes(userRouter, route, cred)
           THEN Refuse(route, cred, body)
           ELSE /\ withdrawals' = out.coll
                /\ nextWid' = IF out.res.status = 200 THEN nextWid + 1 ELSE nextWid
                /\ last' = Request(route, cred, body, TRUE, out.res)
                /\ UNCHANGED <<userVars, catalogVars>>

\* user.controller.js deleteWithdrawalRequest: removes the request
deleteWithdrawalRequest(id) ==
    IF id = NoId THEN [coll |-> withdrawals, res |-> ApiError(400)]
    ELSE IF id \notin DOMAIN withdrawals THEN [coll |-> withdrawals, res |-> ApiError(404)]
    ELSE [coll |-> findByIdAndDelete(withdrawals, id), res |-> ApiResponse(200, withdrawals[id])]

DeleteWithdrawalRequest(cred, id) ==
    LET route == "DELETE /withdrawalrequest/delete"
        body  == [id |-> id]
        out   == deleteWithdrawalRequest(id)
    IN  /\ prevUpd' = Summary(last)
        /\ IF ~Passes(userRouter, route, cred)
           THEN Refuse(route, cred, body)
           ELSE /\ withdrawals' = out.coll
                /\ last' = Request(route, cred, body, TRUE, out.res)
                /\ UNCHANGED <<userVars, nextWid, catalogVars>>


---------------------------------------------------------------------------
(* userSchema: password hook, password check, tokens *)

\* A password value: the plaintext `of` under `layers` applications of
\* bcrypt.hash; layers = 0 is the plaintext itself. The salt is abstracted:
\* hashes of one plaintext under different salts are one value.
Plaintext(p) == [layers |-> 0, of |-> p]

\* bcrypt.hash(value, 10)
bcryptHash(value) == [layers |-> value.layers + 1, of |-> value.of]

\* bcrypt.compare(p, stored): stored is the hash of exactly p
bcryptCompare(p, stored) == stored.layers = 1 /\ stored.of = p

\* the hook without its isModified guard
preSaveAlways(doc, modified) == [doc EXCEPT !.password = bcryptHash(@)]

\* userSchema.pre("save"): hash the password only when that path is modified
preSave(doc, modified) ==
    IF "password" \notin modified THEN doc
    ELSE [doc EXCEPT !.password = bcryptHash(@)]

\* userSchema.methods.isPasswordCorrect
isPasswordCorrect(doc, p) == bcryptCompare(p, doc.password)

\* REFRESH_TOKEN_EXPIRY, in clock seconds
RefreshTokenExpiry == 2

\* jwt.sign(payload, secret, {expiresIn}): the payload, the issue time, the key
NoTok == [sub |-> NoId, iat |-> 0, key |-> "none"]

\* userSchema.methods.generateRefreshToken
generateRefreshToken(u) == [sub |-> u, iat |-> clock, key |-> "refresh"]

\* userSchema.methods.generateAccessToken: the model keeps only whose token it is
generateAccessToken(u) == u

\* jwt.verify(token, REFRESH_TOKEN_SECRET): signature and expiry
jwtVerifyRefresh(t) == t.key = "refresh" /\ clock < t.iat + RefreshTokenExpiry

---------------------------------------------------------------------------
(* Auth issuer: request inputs *)

Passwords == {"pw1", "pw2"}
\* a refresh request carries no token, a token the service signed, or a forgery
TokenInputs ==
    {NoTok} \cup refreshIssued \cup [sub : UserIds, iat : {clock}, key : {"forged"}]

Idle == Request("idle", NoToken, [id |-> NoId], FALSE, ApiResponse(200, "idle"))

\* time passes between requests
Tick ==
    /\ clock < MaxClock
    /\ clock' = clock + 1
    /\ last' = Idle
    /\ prevUpd' = NoUpd
    /\ UNCHANGED <<users, plain, refreshIssued, accessIssued, ledgerVars, catalogVars>>

\* user.controller.js registerUser: required fields non-empty, User.create (a
\* save with every path modified); the avatar upload is left out
registerUser(u, p) ==
    IF p = "" THEN [users |-> users, res |-> ApiError(400)]
    ELSE IF u \in DOMAIN users THEN [users |-> users, res |-> ApiError(409)]
    ELSE LET doc == preSave([password |-> Plaintext(p), refreshToken |-> NoTok],
                            {"password", "refreshToken"})
         IN  [users |-> create(users, u, doc), res |-> ApiResponse(201, u)]

RegisterUser(cred, u, p) ==
    LET route == "POST /register"
        body  == [id |-> u, password |-> p]
        out   == registerUser(u, p)
    IN  /\ prevUpd' = Summary(last)
        /\ IF ~Passes(userRouter, route, cred)
           THEN Refuse(route, cred, body)
           ELSE /\ users' = out.users
                /\ plain' = IF out.res.status = 201
                            THEN create(plain, u, p) ELSE plain
                /\ last' = Request(route, cred, body, TRUE, out.res)
                /\ UNCHANGED <<refreshIssued, accessIssued, clock, ledgerVars, catalogVars>>

\* user.controller.js loginUser: password check, token pair, refresh token
\* stored with user.save() (password path not modified)
loginUser(u, p) ==
    IF u \notin DOMAIN users THEN [users |-> users, issued |-> {}, res |-> ApiError(404)]
    ELSE IF ~isPasswordCorrect(users[u], p)
         THEN [users |-> users, issued |-> {}, res |-> ApiError(401)]
    ELSE LET refresh == generateRefreshToken(u)
             doc == preSave([users[u] EXCEPT !.refreshToken = refresh],
                            {"refreshToken"})
         IN  [users |-> [users EXCEPT ![u] = doc],
              issued |-> {generateAccessToken(u)},
              res |-> ApiResponse(200, refresh)]

LoginUser(cred, u, p) ==
    LET route == "POST /login"
        body  == [id |-> u, password |-> p]
        out   == loginUser(u, p)
    IN  /\ prevUpd' = Summary(last)
        /\ IF ~Passes(userRouter, route, cred)
           THEN Refuse(route, cred, body)
           ELSE /\ users' = out.users
                /\ accessIssued' = accessIssued \cup out.issued
                /\ refreshIssued' = IF out.res.status = 200
                                    THEN refreshIssued \cup {out.res.data} ELSE refreshIssued
                /\ last' = Request(route, cred, body, TRUE, out.res)
                /\ UNCHANGED <<plain, clock, ledgerVars, catalogVars>>

\* user.controller.js logoutUser: clears the stored refresh token of req.user
logoutUser(u) ==
    [users |-> findByIdAndUpdate(users, u, [refreshToken |-> NoTok]),
     res |-> ApiResponse(200, u)]

LogoutUser(cred) ==
    LET route == "POST /logout"
        body  == [id |-> NoId]
        out   == logoutUser(cred)
    IN  /\ prevUpd' = Summary(last)
        /\ IF ~Passes(userRouter, route, cred)
           THEN Refuse(route, cred, body)
           ELSE /\ users' = out.users
                /\ last' = Request(route, cred, body, TRUE, out.res)
                /\ UNCHANGED <<plain, refreshIssued, accessIssued, clock, ledgerVars,
                               catalogVars>>

\* the presented token verifies and is the one stored on the user it names
RefreshTokenMatches(t) ==
    /\ t # NoTok
    /\ jwtVerifyRefresh(t)
    /\ t.sub \in DOMAIN users
    /\ users[t.sub].refreshToken = t

\* the handler without the comparison against the stored token
refreshAccessTokenUnchecked(t) ==
    IF t # NoTok /\ jwtVerifyRefresh(t) /\ t.sub \in DOMAIN users
    THEN [issued |-> {generateAccessToken(t.sub)}, res |-> ApiResponse(200, t.sub)]
    ELSE [issued |-> {}, res |-> ApiError(401)]

\* user.controller.js refreshAccessToken
refreshAccessToken(t) ==
    IF RefreshTokenMatches(t)
    THEN [issued |-> {generateAccessToken(t.sub)}, res |-> ApiResponse(200, t.sub)]
    ELSE [issued |-> {}, res |-> ApiError(401)]

RefreshAccessToken(cred, t) ==
    LET route == "POST /refresh-token"
        body  == [id |-> NoId, refreshToken |-> t]
        out   == refreshAccessToken(t)
    IN  /\ prevUpd' = Summary(last)
        /\ IF ~Passes(userRouter, route, cred)
           THEN Refuse(route, cred, body)
           ELSE /\ accessIssued' = accessIssued \cup out.issued
                /\ last' = Request(route, cred, body, TRUE, out.res)
                /\ UNCHANGED <<users, plain, refreshIssued, clock, ledgerVars, catalogVars>>

\* user.controller.js changeCurrentPassword: old password checked, new one
\* assigned, user.save() (password path modified)
changeCurrentPassword(u, old, new) ==
    IF ~isPasswordCorrect(users[u], old) THEN [users |-> users, res |-> ApiError(400)]
    ELSE LET doc == preSave([users[u] EXCEPT !.password = Plaintext(new)],
                            {"password"})
         IN  [users |-> [users EXCEPT ![u] = doc], res |-> ApiResponse(200, u)]

ChangeCurrentPassword(cred, old, new) ==
    LET route == "POST /change-password"
        body  == [id |-> NoId, old |-> old, new |-> new]
    IN  /\ prevUpd' = Summary(last)
        /\ IF ~Passes(userRouter, route, cred)
           THEN Refuse(route, cred, body)
           ELSE LET out == changeCurrentPassword(cred, old, new) IN
                /\ users' = out.users
                /\ plain' = IF out.res.status = 200
                            THEN [plain EXCEPT ![cred] = new] ELSE plain
                /\ last' = Request(route, cred, body, TRUE, out.res)
                /\ UNCHANGED <<refreshIssued, accessIssued, clock, ledgerVars, catalogVars>>

\* getCurrentUser / updateAccountDetails: they touch none of the modelled fields
AccountRoutes == {"GET /current-user", "PATCH /update-account"}

AccountRequest(cred, route) ==
    LET body == [id |-> NoId]
    IN  /\ prevUpd' = Summary(last)
        /\ IF ~Passes(userRouter, route, cred)
           THEN Refuse(route, cred, body)
           ELSE /\ last' = Request(route, cred, body, TRUE, ApiResponse(200, cred))
                /\ UNCHANGED <<userVars, ledgerVars, catalogVars>>


---------------------------------------------------------------------------
(* Admin catalog: request inputs *)

Urls == {"url1", "url2"}

\* uploadOnCloudinary(path): the response object with its url, or null
Null == "<null>"
UploadOutcomes == Urls \cup {Null}

BadTexts == {"", Undefined}

ProductFields == {"productName", "level", "ratioBetween"}
EventFields   == {"title", "startDate", "endDate", "description"}

\* request bodies: every text field given, or exactly one of them bad
Bodies(fields) ==
    {[f \in fields |-> "x"]}
    \cup {[f \in fields |-> IF f = k THEN b ELSE "x"] : k \in fields, b \in BadTexts}

CatIdInputs == {NoId} \cup CatIds

\* the uploaded file and what the image host answers for it; no file, no upload
Uploads == {<<FALSE, Null>>} \cup {<<TRUE, up>> : up \in UploadOutcomes}


Created == (nextPid - 1) + (nextEid - 1) + (nextSid - 1)

\* Model.create(doc) of a catalog model: a schema with required text fields
\* rejects the document, and the rejection is no ApiError
catalogCreate(coll, id, doc, fields) ==
    IF schemaStrict /\ \E f \in fields : Falsy(doc[f])
    THEN [coll |-> coll, res |-> ServerError]
    ELSE [coll |-> create(coll, id, doc), res |-> ApiResponse(200, doc)]

\* addProduct handler
addProduct(id, body, file, up) ==
    IF \E f \in ProductFields : BlankString(body[f])
    THEN [coll |-> products, res |-> BareJson(400)]
    ELSE IF ~file THEN [coll |-> products, res |-> BareJson(401)]
    ELSE IF up = Null THEN [coll |-> products, res |-> BareJson(401)]
    ELSE catalogCreate(products, id,
             [productName |-> body.productName, level |-> body.level,
              ratioBetween |-> body.ratioBetween, productImg |-> up],
             ProductFields)

AddProduct(cred, body, file, up) ==
    LET route == "admin POST /addProduct"
        req   == [id |-> NoId, fields |-> body, file |-> file, up |-> up]
        out   == addProduct(nextPid, body, file, up)
    IN  /\ Created < MaxCatalog
        /\ prevUpd' = Summary(last)
        /\ IF ~Passes(adminRouter, route, cred)
           THEN Refuse(route, cred, req)
           ELSE /\ products' = out.coll
                /\ nextPid' = IF out.res.status = 200 THEN nextPid + 1 ELSE nextPid
                /\ last' = Request(route, cred, req, TRUE, out.res)
                /\ UNCHANGED <<userVars, ledgerVars, events, sliders, schemaStrict,
                               nextEid, nextSid>>

\* addEvent handler
addEvent(id, body, file, up) ==
    IF \E f \in EventFields : BlankString(body[f])
    THEN [coll |-> events, res |-> BareJson(400)]
    ELSE IF ~file THEN [coll |-> events, res |-> ApiError(400)]
    ELSE IF up = Null THEN [coll |-> events, res |-> ApiError(400)]
    ELSE catalogCreate(events, id,
             [title |-> body.title, startDate |-> body.startDate,
              endDate |-> body.endDate, description |-> body.description,
              eventImg |-> up],
             EventFields)

AddEvent(cred, body, file, up) ==
    LET route == "admin POST /addEvent"
        req   == [id |-> NoId, fields |-> body, file |-> file, up |-> up]
        out   == addEvent(nextEid, body, file, up)
    IN  /\ Created < MaxCatalog
        /\ prevUpd' = Summary(last)
        /\ IF ~Passes(adminRouter, route, cred)
           THEN Refuse(route, cred, req)
           ELSE /\ events' = out.coll
                /\ nextEid' = IF out.res.status = 200 THEN nextEid + 1 ELSE nextEid
                /\ last' = Request(route, cred, req, TRUE, out.res)
                /\ UNCHANGED <<userVars, ledgerVars, products, sliders, schemaStrict,
                               nextPid, nextSid>>

\* uploadSliderImage handler
uploadSliderImage(id, file, up) ==
    IF ~file THEN [coll |-> sliders, res |-> ApiError(400)]
    ELSE IF up = Null THEN [coll |-> sliders, res |-> ApiError(400)]
    ELSE LET doc == [sliderImg |-> up]
         IN  [coll |-> create(sliders, id, doc), res |-> ApiResponse(200, doc)]

UploadSliderImage(cred, file, up) ==
    LET route == "admin POST /addslider"
        req   == [id |-> NoId, file |-> file, up |-> up]
        out   == uploadSliderImage(nextSid, file, up)
    IN  /\ Created < MaxCatalog
        /\ prevUpd' = Summary(last)
        /\ IF ~Passes(adminRouter, route, cred)
           THEN Refuse(route, cred, req)
           ELSE /\ sliders' = out.coll
                /\ nextSid' = IF out.res.status = 200 THEN nextSid + 1 ELSE nextSid
                /\ last' = Request(route, cred, req, TRUE, out.res)
                /\ UNCHANGED <<userVars, ledgerVars, products, events, schemaStrict,
                               nextPid, nextEid>>

\* updateSliderImage handler
updateSliderImage(id, file, up) ==
    IF id = NoId THEN [coll |-> sliders, res |-> ApiError(400)]
    ELSE IF ~file THEN [coll |-> sliders, res |-> ApiError(400)]
    ELSE IF up = Null THEN [coll |-> sliders, res |-> ApiError(400)]
    ELSE LET updated == findByIdAndUpdate(sliders, id, [sliderImg |-> up]) IN
         IF id \notin DOMAIN updated
         THEN [coll |-> updated, res |-> ApiError(404)]
         ELSE [coll |-> updated, res |-> ApiResponse(200, updated[id])]

UpdateSliderImage(cred, id, file, up) ==
    LET route == "admin POST /updateslider"
        req   == [id |-> id, file |-> file, up |-> up]
        out   == updateSliderImage(id, file, up)
    IN  /\ prevUpd' = Summary(last)
        /\ IF ~Passes(adminRouter, route, cred)
           THEN Refuse(route, cred, req)
           ELSE /\ sliders' = out.coll
                /\ last' = Request(route, cred, req, TRUE, out.res)
                /\ UNCHANGED <<userVars, ledgerVars, products, events, schemaStrict,
                               nextIds>>

\* updateEvent handler: eventImgObj.url is read without a null check, so an
\* upload that returned null raises a TypeError
updateEvent(id, body, file, up) ==
    IF id = NoId THEN [coll |-> events, res |-> ApiError(400)]
    ELSE IF \E f \in EventFields : Falsy(body[f])
         THEN [coll |-> events, res |-> ApiError(400)]
    ELSE IF ~file THEN [coll |-> events, res |-> ApiError(400)]
    ELSE IF up = Null THEN [coll |-> events, res |-> ServerError]
    ELSE IF Falsy(up) THEN [coll |-> events, res |-> ApiError(400)]
    ELSE LET updated == findByIdAndUpdate(events, id,
                 [title |-> body.title, startDate |-> body.startDate,
                  endDate |-> body.endDate, description |-> body.description,
                  eventImg |-> up])
         IN  [coll |-> updated,
              res |-> ApiResponse(200, IF id \in DOMAIN updated THEN "event" ELSE Null)]

UpdateEvent(cred, id, body, file, up) ==
    LET route == "admin POST /updateEvent"
        req   == [id |-> id, fields |-> body, file |-> file, up |-> up]
        out   == updateEvent(id, body, file, up)
    IN  /\ prevUpd' = Summary(last)
        /\ IF ~Passes(adminRouter, route, cred)
           THEN Refuse(route, cred, req)
           ELSE /\ events' = out.coll
                /\ last' = Request(route, cred, req, TRUE, out.res)
                /\ UNCHANGED <<userVars, ledgerVars, products, sliders, schemaStrict,
                               nextIds>>

\* deleteSliderImage handler
deleteSliderImage(id) ==
    IF id = NoId THEN [coll |-> sliders, res |-> ApiError(400)]
    ELSE IF id \notin DOMAIN sliders THEN [coll |-> sliders, res |-> ApiError(404)]
    ELSE [coll |-> findByIdAndDelete(sliders, id), res |-> ApiResponse(200, "deleted")]

DeleteSliderImage(cred, id) ==
    LET route == "admin DELETE /deleteslider"
        req   == [id |-> id]
        out   == deleteSliderImage(id)
    IN  /\ prevUpd' = Summary(last)
        /\ IF ~Passes(adminRouter, route, cred)
           THEN Refuse(route, cred, req)
           ELSE /\ sliders' = out.coll
                /\ last' = Request(route, cred, req, TRUE, out.res)
                /\ UNCHANGED <<userVars, ledgerVars, products, events, schemaStrict,
                               nextIds>>

\* deleteEventRecord handler
deleteEventRecord(id) ==
    IF id = NoId THEN [coll |-> events, res |-> ApiResponse(400, "error")]
    ELSE IF id \notin DOMAIN events THEN [coll |-> events, res |-> ApiResponse(404, "error")]
    ELSE [coll |-> findByIdAndDelete(events, id), res |-> ApiResponse(200, "deleted")]

DeleteEventRecord(cred, id) ==
    LET route == "admin DELETE /deleteEvent"
        req   == [id |-> id]
        out   == deleteEventRecord(id)
    IN  /\ prevUpd' = Summary(last)
        /\ IF ~Passes(adminRouter, route, cred)
           THEN Refuse(route, cred, req)
           ELSE /\ events' = out.coll
                /\ last' = Request(route, cred, req, TRUE, out.res)
                /\ UNCHANGED <<userVars, ledgerVars, products, sliders, schemaStrict,
                               nextIds>>


\* read-only admin handlers: getHomeData, getAllProduct, getSliderImages,
\* getEventRecords, getUserRecords
AdminReadRoutes == {"admin GET /home", "admin GET /getAllProducts", "admin GET /getSliderImg",
                    "admin GET /getEventRecords", "admin GET /getUserRecords"}

AdminRead(cred, route) ==
    LET req == [id |-> NoId]
    IN  /\ prevUpd' = Summary(last)
        /\ IF ~Passes(adminRouter, route, cred)
           THEN Refuse(route, cred, req)
           ELSE /\ last' = Request(route, cred, req, TRUE, ApiResponse(200, route))
                /\ UNCHANGED <<userVars, ledgerVars, catalogVars>>

---------------------------------------------------------------------------
(* Specifications *)

NoRequest == Request("none", NoToken, [id |-> NoId], FALSE, ApiResponse(200, "none"))

EmptyStore == [i \in {} |-> NoUpd]

\* The service after start-up on an empty database.
InitEmpty ==
    /\ users = EmptyStore
    /\ plain = EmptyStore
    /\ refreshIssued = {}
    /\ accessIssued = {}
    /\ clock = 0
    /\ withdrawals = EmptyStore
    /\ nextWid = 1
    /\ products = EmptyStore
    /\ events = EmptyStore
    /\ sliders = EmptyStore
    /\ nextPid = 1
    /\ nextEid = 1
    /\ nextSid = 1
    /\ schemaStrict \in BOOLEAN
    /\ last = NoRequest
    /\ prevUpd = NoUpd

\* The service with every user registered (password hashed by the save hook)
\* and logged in at time 0.
Init ==
    /\ users = [u \in UserIds |->
                  [password |-> bcryptHash(Plaintext("pw1")),
                   refreshToken |-> [sub |-> u, iat |-> 0, key |-> "refresh"]]]
    /\ plain = [u \in UserIds |-> "pw1"]
    /\ refreshIssued = {[sub |-> u, iat |-> 0, key |-> "refresh"] : u \in UserIds}
    /\ accessIssued = UserIds
    /\ clock = 0
    /\ withdrawals = EmptyStore
    /\ nextWid = 1
    /\ products = EmptyStore
    /\ events = EmptyStore
    /\ sliders = EmptyStore
    /\ nextPid = 1
    /\ nextEid = 1
    /\ nextSid = 1
    /\ schemaStrict \in BOOLEAN
    /\ last = NoRequest
    /\ prevUpd = NoUpd

\* Withdrawal ledger
Next ==
    \/ \E c \in Creds, a \in Addresses, m \in Amounts, f \in FinalAmounts :
          ProcessWithdrawal(c, a, m, f)
    \/ \E c \in AdminCreds, id \in IdInputs, s \in StatusInputs :
          UpdateWithdrawalStatusByAdmin(c, id, s)
    \/ \E c \in AdminCreds : GetAllUserWithdrawalsForAdmin(c)
    \/ \E c \in Creds, id \in IdInputs : DeleteWithdrawalRequest(c, id)

Spec == Init /\ [][Next]_vars

\* Auth issuer and user router
NextAuth ==
    \/ \E u \in UserIds, p \in Passwords \cup {""} : RegisterUser(NoToken, u, p)
    \/ \E u \in UserIds, p \in Passwords : LoginUser(NoToken, u, p)
    \/ \E c \in Creds : LogoutUser(c)
    \/ \E t \in TokenInputs : RefreshAccessToken(NoToken, t)
    \/ \E c \in Creds, old \in Passwords, new \in Passwords :
          ChangeCurrentPassword(c, old, new)
    \/ \E c \in Creds, r \in AccountRoutes : AccountRequest(c, r)
    \/ Tick

SpecAuth == InitEmpty /\ [][NextAuth]_vars

\* Admin catalog
NextCatalog ==
    \/ \E c \in AdminCreds, b \in Bodies(ProductFields), f \in Uploads :
          AddProduct(c, b, f[1], f[2])
    \/ \E c \in AdminCreds, b \in Bodies(EventFields), f \in Uploads :
          AddEvent(c, b, f[1], f[2])
    \/ \E c \in AdminCreds, f \in Uploads : UploadSliderImage(c, f[1], f[2])
    \/ \E c \in AdminCreds, id \in CatIdInputs, f \in Uploads :
          UpdateSliderImage(c, id, f[1], f[2])
    \/ \E c \in AdminCreds, id \in CatIdInputs, b \in Bodies(EventFields), f \in Uploads :
          UpdateEvent(c, id, b, f[1], f[2])
    \/ \E c \in AdminCreds, id \in CatIdInputs : DeleteSliderImage(c, id)
    \/ \E c \in AdminCreds, id \in CatIdInputs : DeleteEventRecord(c, id)
    \/ \E c \in AdminCreds, r \in AdminReadRoutes : AdminRead(c, r)

SpecCatalog == Init /\ [][NextCatalog]_vars


---------------------------------------------------------------------------
(* Withdrawal ledger: properties *)

AdminStatusRoute == "admin POST /withdrawalrequest/status"
AdminTargets == {"Approved", "Cancelled by Admin"}
Terminal == {"Approved", "Rejected", "Cancelled by Admin"}

C2_TerminalIsFinal ==
    [][ \A id \in DOMAIN withdrawals \cap DOMAIN withdrawals' :
          withdrawals'[id].status # withdrawals[id].status
          => (withdrawals[id].status = "Pending" /\ withdrawals'[id].status \in Terminal)
      ]_vars

C4_CreatedPending ==
    [][ \A id \in DOMAIN withdrawals' \ DOMAIN withdrawals :
          withdrawals'[id].status = "Pending" ]_vars

C4_Witness ==
    /\ last.route = "POST /withdrawalrequest"
    /\ last.ran
    /\ last.res.status = 200
    /\ \E id \in DOMAIN withdrawals :
          withdrawals[id].status = "Pending" /\ withdrawals[id].address = last.body.address

---------------------------------------------------------------------------
(* Auth issuer and user router: properties *)

AuthenticatedUserRoutes ==
    {"POST /withdrawalrequest", "GET /getwithdrawalrequest", "POST /withdrawalrequest/status",
     "DELETE /withdrawalrequest/delete", "POST /logout", "POST /refresh-token",
     "POST /change-password", "GET /current-user", "PATCH /update-account"}

\* C6: on each authenticated user endpoint a request without a valid access
\* token is refused by token verification: the handler does not run and no
\* user or withdrawal state changes.
C6_UserRoutesAuthenticated ==
    [][ (last'.route \in AuthenticatedUserRoutes /\ last'.cred \notin accessIssued)
        => (/\ ~last'.ran
            /\ last'.res.status = 401
            /\ UNCHANGED <<users, accessIssued, withdrawals>>) ]_vars

\* C7: a refresh request issues an access token only for a token that verifies
\* and equals the refresh token stored on the user it names; any other token is
\* answered 401 and no access token is issued.
C7_RefreshOnlyStoredToken ==
    [][ (last'.route = "POST /refresh-token" /\ last'.ran)
        => LET t == last'.body.refreshToken
               stored == /\ t.key = "refresh"
                         /\ clock < t.iat + RefreshTokenExpiry
                         /\ t.sub \in DOMAIN users
                         /\ users[t.sub].refreshToken = t
           IN  IF stored
               THEN last'.res.status = 200 => accessIssued' = accessIssued \cup {t.sub}
               ELSE last'.res.status = 401 /\ accessIssued' = accessIssued ]_vars

\* a token superseded by a later login, still unexpired, is refused
C7_Witness ==
    /\ last.route = "POST /refresh-token"
    /\ last.ran
    /\ last.res.status = 401
    /\ last.body.refreshToken.key = "refresh"
    /\ clock < last.body.refreshToken.iat + RefreshTokenExpiry
    /\ last.body.refreshToken.sub \in DOMAIN users
    /\ last.body.refreshToken \in refreshIssued
    /\ users[last.body.refreshToken.sub].refreshToken.key = "refresh"
    /\ users[last.body.refreshToken.sub].refreshToken.iat > last.body.refreshToken.iat

C8_StoredHashed ==
    \A u \in DOMAIN users :
        /\ users[u].password.layers = 1
        /\ users[u].password # Plaintext(plain[u])
        /\ isPasswordCorrect(users[u], plain[u])

C8_OtherSavesKeepHash ==
    last'.route \notin {"POST /register", "POST /change-password"}
    => \A u \in DOMAIN users : u \in DOMAIN users' /\ users'[u].password = users[u].password

\* C8: every stored password is the hash of the plaintext last supplied, never
\* the plaintext; a save that does not modify the password keeps the stored
\* hash, so the plaintext still checks.
C8_PasswordHashed == []C8_StoredHashed /\ [][C8_OtherSavesKeepHash]_vars

\* a login has saved the refresh token and the password still checks
C8_Witness ==
    /\ last.route = "POST /login"
    /\ last.ran
    /\ last.res.status = 200
    /\ users[last.body.id].refreshToken # NoTok
    /\ isPasswordCorrect(users[last.body.id], last.body.password)


---------------------------------------------------------------------------
(* Admin catalog: properties *)

UploadRoutes == {"admin POST /addProduct", "admin POST /addEvent", "admin POST /addslider",
                 "admin POST /updateslider", "admin POST /updateEvent"}

CatalogImagesAreUrls ==
    /\ \A i \in DOMAIN products : products[i].productImg \in Urls
    /\ \A i \in DOMAIN events : events[i].eventImg \in Urls
    /\ \A i \in DOMAIN sliders : sliders[i].sliderImg \in Urls

NoUrlIsUploadError ==
    (/\ last'.route \in UploadRoutes
     /\ last'.ran
     /\ (~last'.body.file \/ last'.body.up = Null))
    => (/\ last'.res.status \in {400, 401}
        /\ UNCHANGED <<products, events, sliders>>)

\* C9: every stored catalog image is a URL the image host returned, and a
\* create or update request with no file, or whose upload yields no URL, is
\* answered with an upload error (400/401) and leaves the catalog as it was.
C9_NoRecordWithoutUrl == []CatalogImagesAreUrls /\ [][NoUrlIsUploadError]_vars

\* C10: addProduct and addEvent with a required text field empty or missing are
\* answered 400 in the response envelope and persist nothing (stated for the
\* requests whose image was uploaded, so that only the text fields are at fault).
C10_EmptyFieldRejected ==
    [][ (/\ last'.route \in {"admin POST /addProduct", "admin POST /addEvent"}
         /\ last'.ran
         /\ last'.body.file
         /\ last'.body.up \in Urls
         /\ \E f \in DOMAIN last'.body.fields : Falsy(last'.body.fields[f]))
        => (/\ last'.res.status = 400
            /\ last'.res.envelope
            /\ UNCHANGED <<products, events>>) ]_vars


---------------------------------------------------------------------------
(* Admin router and status update: further properties *)

UnguardedDeleteRoutes == {"admin DELETE /deleteslider", "admin DELETE /deleteEvent"}

\* C11: DELETE /deleteslider and DELETE /deleteEvent, documented as protected by
\* JWT verification, are gated by verifyJWT, so a request without a valid token
\* never removes an Event or SliderImage record.
C11_DeletesNeedToken ==
    [][ (last'.route \in UnguardedDeleteRoutes /\ last'.cred \notin accessIssued)
        => (/\ DOMAIN events \subseteq DOMAIN events'
            /\ DOMAIN sliders \subseteq DOMAIN sliders') ]_vars

\* C12: a successful admin status update changes only the status field of the
\* record with that id: its other fields, every other record, the set of
\* records and the User collection stay as they were.
C12_UpdateFrame ==
    [][ (/\ last'.route = AdminStatusRoute
         /\ last'.ran
         /\ last'.res.status = 200)
        => LET id == last'.body.id IN
           /\ DOMAIN withdrawals' = DOMAIN withdrawals
           /\ id \in DOMAIN withdrawals
           /\ DOMAIN withdrawals'[id] = DOMAIN withdrawals[id]
           /\ \A f \in DOMAIN withdrawals[id] \ {"status"} :
                 withdrawals'[id][f] = withdrawals[id][f]
           /\ \A other \in DOMAIN withdrawals \ {id} :
                 withdrawals'[other] = withdrawals[other]
           /\ users' = users
           /\ nextWid' = nextWid ]_vars

\* a status was rewritten while a second record sat in the collection
C12_Witness ==
    /\ last.route = AdminStatusRoute
    /\ last.ran
    /\ last.res.status = 200
    /\ Cardinality(DOMAIN withdrawals) = 2
    /\ withdrawals[last.body.id].status = "Cancelled by Admin"
    /\ withdrawals[last.body.id].address = "0xAA"
    /\ \E other \in DOMAIN withdrawals \ {last.body.id} : withdrawals[other].status = "Pending"


====
